---- MODULE Spec2Model ----
(***************************************************************************)
(* The country-catalog refresh pipeline of HNG-Backend-Stage-2.            *)
(*                                                                         *)
(* The repository holds three versions of the same Express server.  Each   *)
(* one registers POST /countries/refresh, GET /countries/image,            *)
(* GET and DELETE /countries/:name and the helper generateSummaryImage     *)
(* over one MySQL table (countries), reached through a connection pool,    *)
(* and one image file (cache/summary.png):                                 *)
(*   "finallyRelease"  src/migrate.js 182-502      (two sources, the pool  *)
(*                     connection is released in a finally block)          *)
(*   "nestedTry"       src/unnamed/part_000 1-295  (two sources, the       *)
(*                     transaction has its own try inside the fetch try)   *)
(*   "singleSource"    src/migrate.js 504-801      (catalog only, writes   *)
(*                     through the pool, simulated exchange rates)         *)
(* Init picks the server that runs; it never changes afterwards.           *)
(*                                                                         *)
(* Spec        the handlers, one request at a time                         *)
(* SpecDerive  the field deriver of the refresh loop on its own            *)
(* SpecPool    concurrent refresh requests against the connection pool     *)
(*                                                                         *)
(* JavaScript values: undefined / null / a missing field is the empty      *)
(* tuple, a present value x is the one-element tuple <<x>>.                *)
(***************************************************************************)
EXTENDS Integers, Sequences, FiniteSets, TLC

Undefined == <<>>
Null == <<>>
Some(x) == <<x>>
IsDefined(o) == o # <<>>
Val(o) == o[1]

(***************************************************************************)
(* Bounds of the model.                                                    *)
(***************************************************************************)
\* longest catalog array an external fetch returns
MaxLen == 2

(***************************************************************************)
(* The inputs: what the two external sources can answer.                   *)
(***************************************************************************)
Variants == {"finallyRelease", "nestedTry", "singleSource"}
DualSource == {"finallyRelease", "nestedTry"}

Names == {"Nigeria", "Ghana"}
\* NGN is quoted at 10, XAF at 0, ZZZ is not quoted
Codes == {"NGN", "XAF", "ZZZ"}

\* c.population as the source sends it: missing, or a number
RawPopulations == {Undefined, Some(1000)}

\* c.currencies of the v2 catalog: missing, [], [{}], [{code: ""}], [{code: X}]
CurrencyShapesV2 ==
  {Undefined, Some(<<>>), Some(<<Undefined>>), Some(<<Some("")>>)}
    \cup {Some(<<Some(k)>>) : k \in Codes}

\* country.currencies of the v3.1 catalog, as the list of its keys:
\* missing, {}, {X: ...}
CurrencyShapesV3 == {Undefined, Some(<<>>)} \cup {Some(<<Some(k)>>) : k \in Codes}

CurrencyShapes(v) == IF v \in DualSource THEN CurrencyShapesV2 ELSE CurrencyShapesV3

\* every element a catalog array can hold
AllRecords(v) ==
  [name : Names, population : RawPopulations, currencies : CurrencyShapes(v)]

\* the elements the catalog arrays of the refresh requests are made of: every
\* shape of currencies occurs; Nigeria has the quoted currency or none, Ghana
\* one quoted at 0, an unquoted one or none
CatalogRecords(v) ==
  {c \in AllRecords(v) :
     \/ c.name = "Nigeria" /\ c.population = Some(1000)
          /\ c.currencies \in {Some(<<Some("NGN")>>), Undefined}
     \/ c.name = "Ghana" /\ c.population = Undefined
          /\ c.currencies \notin {Some(<<Some("NGN")>>), Undefined}}

\* exchangeData.rates: a map from currency code to rate, Undefined where the
\* code is not quoted
EmptyRates == [k \in Codes |-> Undefined]
QuotedRates == [k \in Codes |-> IF k = "NGN" THEN Some(10)
                                ELSE IF k = "XAF" THEN Some(0) ELSE Undefined]
RateMaps == {EmptyRates, QuotedRates}

\* axios error codes: timeout, connection refused, DNS failure, non-2xx status
FetchErrorCodes == {"ECONNABORTED", "ECONNREFUSED", "ENOTFOUND", "ERR_BAD_RESPONSE"}

\* what axios.get(countriesUrl) settles to: a rejection, or a response whose
\* data is no array, or an array of len records
CatalogResponses ==
  [kind : {"error"}, code : FetchErrorCodes]
    \cup {[kind |-> "data", isArray |-> FALSE, len |-> 0]}
    \cup [kind : {"data"}, isArray : {TRUE}, len : 0..MaxLen]

\* what axios.get(exchangeUrl) settles to: a rejection, an empty body, or a
\* body with a result field and (perhaps) a rates map
ExchangeResponses ==
  [kind : {"error"}, code : FetchErrorCodes]
    \cup {[kind |-> "data", body |-> Null]}
    \cup [kind : {"data"},
          body : {Some(b) : b \in [result : {"success", "error"},
                                   rates : {Undefined} \cup {Some(m) : m \in RateMaps}]}]

\* the single-source server fetches no exchange rates
NoExchange == [kind |-> "none"]

\* Math.random() draws: the ends of the multiplier range, and two simulated
\* rates of the single-source server's range [700, 1500)
MultMin == 1000
MultMax == 2000
Multipliers == {MultMin, MultMax}
SimRates == {800, 1000}

\* Math.random() returns one of the values k / RandomSteps, 0 <= k < RandomSteps
RandomSteps == 1001

\* a slip: the draw is scaled by the upper end instead of the width of the range
multiplierOf_scaledByMax(k) == ((k * MultMax) \div RandomSteps) + MultMin

\* Math.floor(Math.random() * (2000 - 1000 + 1)) + 1000, and
\* Math.floor(Math.random() * 1001) + 1000, for the draw k / RandomSteps
multiplierOf(k) == ((k * (MultMax - MultMin + 1)) \div RandomSteps) + MultMin

\* a population that is text and no number, e.g. "abc": a pair, so that it
\* differs from every number <<n>> and from a missing value
NotNumeric == <<"abc", "string">>

\* c.population over everything a source may send: missing, a number (positive
\* or negative), or text
WidePopulations == RawPopulations \cup {Some(-1000), NotNumeric}

\* a rate map that quotes NGN below zero
NegativeRates == [k \in Codes |-> IF k = "NGN" THEN Some(-10) ELSE Undefined]
WideRateMaps == RateMaps \cup {NegativeRates}

\* the records the deriver is run on by itself.  The single-source server
\* stores country.population || 0, which is the number sent; text is left out
\* for it
DeriveRecords(v) ==
  [name : {"Nigeria"},
   population : IF v \in DualSource THEN WidePopulations
                ELSE WidePopulations \ {NotNumeric},
   currencies : CurrencyShapes(v)]

(***************************************************************************)
(* The field deriver: the body of the loop over the catalog.               *)
(***************************************************************************)
\* JavaScript truthiness of a string-or-missing value and of a number-or-missing
\* value
TruthyString(o) == IsDefined(o) /\ Val(o) # ""
TruthyNumber(o) == IsDefined(o) /\ Val(o) # 0

\* Number(x) is a number and not NaN: x is a number and no text
IsNumeric(o) == Len(o) = 1

\* const population = Number(c.population) || 0   (country.population || 0):
\* NaN and 0 give 0, every other number is kept, a negative one too
populationOf(c) ==
  IF IsNumeric(c.population) /\ TruthyNumber(c.population)
    THEN Val(c.population) ELSE 0

\* dual source:   currency_code = c.currencies[0].code || null, when
\*                c.currencies is a non-empty array, else null
\* single source: currencyCode = Object.keys(country.currencies)[0], when
\*                country.currencies has a key, else null
currencyCodeOf(v, c) ==
  IF IsDefined(c.currencies) /\ Len(Val(c.currencies)) > 0
    THEN LET first == Val(c.currencies)[1]
         IN  IF v \in DualSource
               THEN IF TruthyString(first) THEN first ELSE Null
               ELSE first
    ELSE Null

\* (population * multiplier) / exchange_rate; the inputs are chosen so that the
\* quotient is whole
gdpOf(population, multiplier, rate) == (population * multiplier) \div rate

\* a slip: estimated_gdp keeps its initial null when there is no currency
deriveFinallyRelease_noZero(cc, population, rates, multiplier) ==
  IF ~TruthyString(cc)
    THEN [exchange_rate |-> Null, estimated_gdp |-> Null]
    ELSE LET rate == rates[Val(cc)]
         IN  IF rate = Undefined
               THEN [exchange_rate |-> Null, estimated_gdp |-> Null]
               ELSE [exchange_rate |-> rate,
                     estimated_gdp |->
                       IF Val(rate) = 0 THEN Null
                       ELSE Some((population * multiplier) \div Val(rate))]

\* finallyRelease: if (!currency_code) .. else { rate = rates[currency_code];
\*   if (rate === undefined) .. else { exchange_rate = Number(rate);
\*   estimated_gdp = exchange_rate === 0 ? null : .. } }
deriveFinallyRelease(cc, population, rates, multiplier) ==
  IF ~TruthyString(cc)
    THEN [exchange_rate |-> Null, estimated_gdp |-> Some(0)]
    ELSE LET rate == rates[Val(cc)]
         IN  IF rate = Undefined
               THEN [exchange_rate |-> Null, estimated_gdp |-> Null]
               ELSE [exchange_rate |-> rate,
                     estimated_gdp |->
                       IF Val(rate) = 0 THEN Null
                       ELSE Some(gdpOf(population, multiplier, Val(rate)))]

\* nestedTry: if (!currency_code) estimated_gdp = 0;
\*   else if (rates[currency_code]) { exchange_rate = Number(..);
\*   estimated_gdp = exchange_rate ? .. : null }
deriveNestedTry(cc, population, rates, multiplier) ==
  IF ~TruthyString(cc)
    THEN [exchange_rate |-> Null, estimated_gdp |-> Some(0)]
    ELSE IF TruthyNumber(rates[Val(cc)])
      THEN LET rate == rates[Val(cc)]
           IN  [exchange_rate |-> rate,
                estimated_gdp |->
                  IF TruthyNumber(rate)
                    THEN Some(gdpOf(population, multiplier, Val(rate)))
                    ELSE Null]
      ELSE [exchange_rate |-> Null, estimated_gdp |-> Null]

\* singleSource: exchangeRate = null, estimated_gdp = 0;
\*   if (currencyCode) { exchangeRate = random; estimated_gdp = .. }
deriveSingleSource(cc, population, simRate, multiplier) ==
  IF TruthyString(cc)
    THEN [exchange_rate |-> Some(simRate),
          estimated_gdp |-> Some(gdpOf(population, multiplier, simRate))]
    ELSE [exchange_rate |-> Null, estimated_gdp |-> Some(0)]

\* the parameters of the INSERT for catalog record c
deriveRow(v, c, rates, multiplier, simRate) ==
  LET cc == currencyCodeOf(v, c)
      population == populationOf(c)
      d == IF v = "finallyRelease"
             THEN deriveFinallyRelease(cc, population, rates, multiplier)
           ELSE IF v = "nestedTry"
             THEN deriveNestedTry(cc, population, rates, multiplier)
           ELSE deriveSingleSource(cc, population, simRate, multiplier)
  IN  [name |-> c.name, population |-> population, currency_code |-> cc,
       exchange_rate |-> d.exchange_rate, estimated_gdp |-> d.estimated_gdp]

(***************************************************************************)
(* The store.  A table is a set of rows with distinct names.               *)
(***************************************************************************)
\* INSERT .. ON DUPLICATE KEY UPDATE: the row with this name takes the new
\* values of every other column, or the row is inserted
Upsert(table, row) == {r \in table : r.name # row.name} \cup {row}

\* the rows a transaction has written, applied to the committed table
ApplyAll(table, rows) == {r \in table : \A w \in rows : w.name # r.name} \cup rows

\* the :name values the requests carry: case variants of stored names, a name
\* never stored, the word of the image route, and a blank
Blank == " "
RequestNames == {"Nigeria", "nigeria", "NIGERIA", "ghana", "Togo", "image", Blank}

\* LOWER(x) of MySQL on the names in use
Lower(x) ==
  CASE x \in {"Nigeria", "nigeria", "NIGERIA"} -> "nigeria"
    [] x \in {"Ghana", "ghana", "GHANA"} -> "ghana"
    [] x \in {"Togo", "togo", "TOGO"} -> "togo"
    [] OTHER -> x

\* the rows WHERE LOWER(name) = LOWER(?) selects
MatchingRows(table, name) == {r \in table : Lower(r.name) = Lower(name)}

\* a slip: the name is compared as it is written
DeleteFrom_exactCase(table, name) == {r \in table : r.name # name}

\* what a query sent through the pool (database.query) reads: the committed
\* rows.  The rows an open transaction has written on its own connection are
\* not among them
poolRead(committed, pending) == committed

\* DELETE FROM countries WHERE LOWER(name) = LOWER(?)
DeleteFrom(table, name) == {r \in table : Lower(r.name) # Lower(name)}

(***************************************************************************)
(* The report renderer's queries.                                          *)
(***************************************************************************)
\* LIMIT 5 of the top-by-GDP query
TopLimit == 5

\* ORDER BY estimated_gdp DESC: a sorts no later than b (NULL sorts last)
SortsBefore(a, b) ==
  \/ ~IsDefined(b.estimated_gdp)
  \/ /\ IsDefined(a.estimated_gdp)
     /\ Val(a.estimated_gdp) >= Val(b.estimated_gdp)

RECURSIVE TopRows(_, _)
TopRows(rows, n) ==
  IF n = 0 \/ rows = {} THEN <<>>
  ELSE LET top == CHOOSE r \in rows : \A o \in rows : SortsBefore(r, o)
       IN  <<[name |-> top.name, estimated_gdp |-> top.estimated_gdp]>>
             \o TopRows(rows \ {top}, n - 1)

\* SELECT name, estimated_gdp .. [WHERE estimated_gdp IS NOT NULL]
\*   ORDER BY estimated_gdp DESC LIMIT 5   (the single-source server has no WHERE)
topQuery(v, table) ==
  TopRows(IF v \in DualSource THEN {r \in table : IsDefined(r.estimated_gdp)} ELSE table,
          TopLimit)

\* what the image shows: SELECT COUNT(*) and the top rows
Render(v, table) == [total |-> Cardinality(table), top |-> topQuery(v, table)]

\* r.estimated_gdp.toFixed(2) of the single-source renderer throws on a NULL
\* estimated_gdp; the dual-source renderers format with Number(..)
formatThrows(v, table) ==
  /\ v = "singleSource"
  /\ \E i \in 1..Len(topQuery(v, table)) : ~IsDefined(topQuery(v, table)[i].estimated_gdp)

\* a slip: the renderer has no try/catch of its own
rendererThrows_uncaught(drawOk) == ~drawOk

\* generateSummaryImage wraps its whole body in try/catch: whatever fails
\* inside (drawOk = FALSE: a query, the canvas or the file write fails) is
\* logged and never reaches the caller
rendererThrows(drawOk) == FALSE

(***************************************************************************)
(* The fetch step.                                                         *)
(***************************************************************************)
\* a slip: the Array.isArray test is left out
validCountries_unchecked(cat) == cat.kind = "data"

\* Array.isArray(countriesData)
validCountries(cat) == cat.kind = "data" /\ cat.isArray

\* finallyRelease: exchangeData && exchangeData.result === "success" && exchangeData.rates
\* nestedTry:      exchangeData?.rates
validExchange(v, ex) ==
  /\ ex.kind = "data"
  /\ IsDefined(ex.body)
  /\ IsDefined(Val(ex.body).rates)
  /\ (v = "finallyRelease" => Val(ex.body).result = "success")

\* the status the handler answers right after the fetch step, 0 when it goes on.
\* dual source: every rejection and every throw of the validation lands in the
\*   catch that answers 503.
\* single source: a non-array body is answered 503; a rejection reaches the
\*   catch, which answers 503 for ECONNABORTED and passes everything else to
\*   next(error), i.e. to the global error handler's 500.
fetchStatus(v, cat, ex) ==
  IF v \in DualSource
    THEN IF cat.kind = "error" \/ ex.kind = "error" THEN 503
         ELSE IF ~validCountries(cat) THEN 503
         ELSE IF ~validExchange(v, ex) THEN 503
         ELSE 0
    ELSE IF cat.kind = "error"
           THEN IF cat.code = "ECONNABORTED" THEN 503 ELSE 500
         ELSE IF ~validCountries(cat) THEN 503
         ELSE 0

\* a slip: every server writes through the pool, as the single-source one does
usesTransaction_autocommit(v) == FALSE

\* upserts go through the transaction's connection (conn.query) in the
\* dual-source servers and straight through the pool (database.query,
\* autocommit) in the single-source server
usesTransaction(v) == v \in DualSource

(***************************************************************************)
(* State.                                                                  *)
(***************************************************************************)
VARIABLES
  variant,    \* which of the three servers runs
  countries,  \* the committed rows of the countries table
  image,      \* cache/summary.png: Undefined, or what was last rendered
  req,        \* the refresh request being served, see NoRequest
  served,     \* the last request served by one of the other routes, see NoServed
  derivation, \* the last run of the field deriver on its own, see NoDerivation
  inStage     \* how many concurrent refresh requests stand at each stage of
              \* the handler, as the connection pool sees them

vars == <<variant, countries, image, req, served, derivation, inStage>>

\* no request in flight.  The fields of a request:
\*   pc            where the handler stands
\*   countriesResp, exchangeResp   what the two fetches settled to
\*   rates         exchangeData.rates
\*   conn          conn of the handler: "undefined", "held" (acquired) or
\*                 "released"
\*   releases      how often conn.release() was called
\*   began         beginTransaction succeeded
\*   issued        upsert queries sent
\*   processed     the handler's counter of the same name
\*   pending       rows written in the open transaction, not yet committed
\*   committed     conn.commit() succeeded
\*   rollbacks     how often conn.rollback() was called
\*   failed        the calls that threw
\*   status        status of the response sent, 0 while none is
\*   responses     how many responses were sent
\*   total         the total field of the 200 response
\*   imageWrites   how often the request wrote the image file
\*   before        the committed rows when the request arrived
NoRequest ==
  [pc |-> "idle", countriesResp |-> Undefined, exchangeResp |-> Undefined,
   rates |-> EmptyRates, conn |-> "undefined", releases |-> 0, began |-> FALSE,
   issued |-> 0, processed |-> 0, pending |-> {}, committed |-> FALSE,
   rollbacks |-> 0, failed |-> {}, status |-> 0, responses |-> 0, total |-> 0,
   imageWrites |-> 0, before |-> {}]

\* no request served by the other routes yet
NoServed == [handler |-> "none"]

\* the deriver has not run on its own
NoDerivation == Undefined

\* the stages of a refresh handler, as the connection pool sees it:
\*   "arrived"    fetching, before any database call
\*   "connecting" waiting for a pool connection: database.getConnection() of
\*                the dual-source servers, the database.query of an upsert in
\*                the single-source server
\*   "writing"    working on that connection: beginTransaction .. commit, or
\*                the one upsert query
\*   "querying1", "querying2"  a database.query of generateSummaryImage waits
\*                for a pool connection
\*   "reading1", "reading2"    that query runs on the connection it got
\*   "responded"  the handler is through and holds no connection
PoolStages ==
  {"arrived", "connecting", "writing", "querying1", "reading1", "querying2",
   "reading2", "responded"}

Init ==
  /\ variant \in Variants
  /\ countries = {}
  /\ image = Undefined
  /\ req = NoRequest
  /\ served = NoServed
  /\ derivation = NoDerivation
  /\ inStage = [s \in PoolStages |-> 0]

\* res.status(code).json(..)
respond(r, code) == [r EXCEPT !.status = code, !.responses = @ + 1]

\* conn.release()
release(r) == [r EXCEPT !.conn = "released", !.releases = @ + 1]

\* the handler returns
finish(r) == [r EXCEPT !.pc = "done"]

(***************************************************************************)
(* POST /countries/refresh, one action per awaited call of the handler.    *)
(***************************************************************************)
\* a slip: the image is rendered before the transaction is committed
afterRecord_renderFirst(v, n, len) == IF n < len THEN "upsert" ELSE "image"

\* where the handler goes once the loop has handled n of the len records
afterRecord(v, n, len) ==
  IF n < len THEN "upsert" ELSE IF v \in DualSource THEN "commit" ELSE "image"

\* a refresh request arrives
RefreshRequest ==
  /\ req.pc \in {"idle", "done"}
  /\ req' = [NoRequest EXCEPT !.pc = "fetch", !.before = countries]
  /\ served' = NoServed
  /\ UNCHANGED <<variant, countries, image, derivation, inStage>>

\* await Promise.all([axios.get(countriesUrl), axios.get(exchangeUrl)]) and the
\* validation (dual source); await axios.get(countriesUrl) and the Array.isArray
\* test (single source)
Fetch ==
  /\ req.pc = "fetch"
  /\ \E cat \in CatalogResponses :
     \E ex \in (IF variant \in DualSource THEN ExchangeResponses ELSE {NoExchange}) :
       LET st == fetchStatus(variant, cat, ex)
           r1 == [req EXCEPT !.countriesResp = Some(cat), !.exchangeResp = Some(ex)]
       IN  IF st # 0
             THEN req' = finish(respond([r1 EXCEPT !.failed = {"fetch"}], st))
             ELSE req' = [r1 EXCEPT
                            !.rates = IF variant \in DualSource
                                        THEN Val(Val(ex.body).rates) ELSE EmptyRates,
                            !.pc = IF variant \in DualSource THEN "getConnection"
                                   ELSE afterRecord(variant, 0, cat.len)]
  /\ UNCHANGED <<variant, countries, image, derivation, inStage, served>>

\* conn = await database.getConnection()
\* a rejection: finallyRelease answers 500 from its catch (conn is undefined,
\* so neither rollback nor release runs); in nestedTry the call stands in the
\* outer try, whose catch answers 503
GetConnection ==
  /\ req.pc = "getConnection"
  /\ \E ok \in BOOLEAN :
       IF ok
         THEN req' = [req EXCEPT !.conn = "held", !.pc = "beginTransaction"]
         ELSE req' = finish(respond([req EXCEPT !.failed = @ \cup {"getConnection"}],
                                    IF variant = "finallyRelease" THEN 500 ELSE 503))
  /\ UNCHANGED <<variant, countries, image, derivation, inStage, served>>

\* await conn.beginTransaction()
BeginTransaction ==
  /\ req.pc = "beginTransaction"
  /\ \E ok \in BOOLEAN :
       IF ok
         THEN req' = [req EXCEPT !.began = TRUE,
                        !.pc = afterRecord(variant, 0, Val(req.countriesResp).len)]
         ELSE req' = [req EXCEPT !.failed = @ \cup {"beginTransaction"}, !.pc = "rollback"]
  /\ UNCHANGED <<variant, countries, image, derivation, inStage, served>>

\* one turn of the loop: derive the fields of the next catalog record and
\* await the INSERT .. ON DUPLICATE KEY UPDATE.  The record is drawn when the
\* loop reaches it; the handler reads each element of the array once.
\* A rejection goes to the catch: rollback in the dual-source servers,
\* next(error) and so the global handler's 500 in the single-source server.
UpsertCountry ==
  /\ req.pc = "upsert"
  /\ \E c \in CatalogRecords(variant), multiplier \in Multipliers :
     \E simRate \in (IF variant \in DualSource THEN {800} ELSE SimRates) :
     \E ok \in BOOLEAN :
       LET row == deriveRow(variant, c, req.rates, multiplier, simRate)
           r1 == [req EXCEPT !.issued = @ + 1]
           len == Val(req.countriesResp).len
       IN  IF ok
             THEN /\ req' = [r1 EXCEPT
                               !.processed = @ + 1,
                               !.pending = IF usesTransaction(variant)
                                             THEN Upsert(@, row) ELSE @,
                               !.pc = afterRecord(variant, req.processed + 1, len)]
                  /\ countries' = IF usesTransaction(variant)
                                    THEN countries ELSE Upsert(countries, row)
             ELSE /\ req' = IF variant \in DualSource
                              THEN [r1 EXCEPT !.failed = @ \cup {"query"}, !.pc = "rollback"]
                              ELSE finish(respond([r1 EXCEPT !.failed = @ \cup {"query"}], 500))
                  /\ UNCHANGED countries
  /\ UNCHANGED <<variant, image, derivation, inStage, served>>

\* await conn.commit(); nestedTry releases the connection right after it
Commit ==
  /\ req.pc = "commit"
  /\ \E ok \in BOOLEAN :
       IF ok
         THEN /\ countries' = ApplyAll(countries, req.pending)
              /\ LET r1 == [req EXCEPT !.pending = {}, !.committed = TRUE, !.pc = "image"]
                 IN  req' = IF variant = "nestedTry" THEN release(r1) ELSE r1
         ELSE /\ req' = [req EXCEPT !.failed = @ \cup {"commit"}, !.pc = "rollback"]
              /\ UNCHANGED countries
  /\ UNCHANGED <<variant, image, derivation, inStage, served>>

\* await generateSummaryImage(), then res.status(200).json({.., total}) and,
\* in finallyRelease, the finally block's conn.release()
GenerateSummaryImage ==
  /\ req.pc = "image"
  /\ \E drawOk \in BOOLEAN :
       LET written == drawOk /\ ~formatThrows(variant, countries)
           r1 == [req EXCEPT !.imageWrites = IF written THEN @ + 1 ELSE @,
                             !.failed = IF written THEN @ ELSE @ \cup {"generateSummaryImage"}]
           r2 == respond([r1 EXCEPT !.total = req.processed], 200)
       IN  /\ image' = IF written THEN Some(Render(variant, countries)) ELSE image
           /\ req' = IF rendererThrows(written)
                       THEN IF variant \in DualSource
                              THEN [r1 EXCEPT !.pc = "rollback"]
                              ELSE finish(respond(r1, 500))
                       ELSE finish(IF variant = "finallyRelease" THEN release(r2) ELSE r2)
  /\ UNCHANGED <<variant, countries, derivation, inStage, served>>

\* the catch block of the transaction: if (conn) await conn.rollback().
\* ROLLBACK drops the pending rows; when the call itself fails the session is
\* lost and the server drops them.
\* finallyRelease: then 500, and the finally block releases; when rollback
\*   throws, the finally block still releases and the rejection leaves the
\*   async handler: no response is sent by an Express that ignores the
\*   handler's promise, the global error handler answers 500 in one that
\*   forwards it.
\* nestedTry: then conn.release() and 500; when rollback throws, the outer
\*   catch answers 503 and conn.release() is skipped.
Rollback ==
  /\ req.pc = "rollback"
  /\ \E ok \in BOOLEAN, forwarded \in BOOLEAN :
       LET r1 == [req EXCEPT !.rollbacks = @ + 1, !.pending = {}]
           r2 == [r1 EXCEPT !.failed = @ \cup {"rollback"}]
       IN  IF ok
             THEN req' = finish(release(respond(r1, 500)))
             ELSE IF variant = "finallyRelease"
               THEN req' = finish(release(IF forwarded THEN respond(r2, 500) ELSE r2))
               ELSE req' = finish(respond(r2, 503))
  /\ UNCHANGED <<variant, countries, image, derivation, inStage, served>>

(***************************************************************************)
(* The router.  Express tries the routes in the order of their             *)
(* registration and hands the request to the first one whose method and    *)
(* path pattern match; ":name" matches any one path segment.               *)
(***************************************************************************)
Route(method, pattern, handler) ==
  [method |-> method, pattern |-> pattern, handler |-> handler]

\* app.post / app.get / app.delete calls of the three servers, in source order
Routes(v) ==
  IF v = "finallyRelease"
    THEN << Route("POST", <<"countries", "refresh">>, "refresh"),
            Route("GET", <<"countries">>, "list"),
            Route("GET", <<"countries", "image">>, "getImage"),
            Route("GET", <<"countries", ":name">>, "getByName"),
            Route("DELETE", <<"countries", ":name">>, "deleteByName"),
            Route("GET", <<"status">>, "status") >>
  ELSE IF v = "nestedTry"
    THEN << Route("POST", <<"countries", "refresh">>, "refresh"),
            Route("GET", <<"countries">>, "list"),
            Route("GET", <<"countries", ":name">>, "getByName"),
            Route("DELETE", <<"countries", ":name">>, "deleteByName"),
            Route("GET", <<"countries", "image">>, "getImage"),
            Route("GET", <<"status">>, "status") >>
  ELSE << Route("POST", <<"countries", "refresh">>, "refresh"),
          Route("GET", <<"countries">>, "list"),
          Route("GET", <<"countries", ":name">>, "getByName"),
          Route("DELETE", <<"countries", ":name">>, "deleteByName"),
          Route("GET", <<"status">>, "status"),
          Route("GET", <<"countries", "image">>, "getImage") >>

matches(route, method, path) ==
  /\ route.method = method
  /\ Len(route.pattern) = Len(path)
  /\ \A i \in 1..Len(path) : route.pattern[i] = ":name" \/ route.pattern[i] = path[i]

\* the handler of the first matching route, "none" when no route matches
dispatch(v, method, path) ==
  LET hits == {i \in 1..Len(Routes(v)) : matches(Routes(v)[i], method, path)}
  IN  IF hits = {} THEN "none"
      ELSE Routes(v)[CHOOSE i \in hits : \A j \in hits : i <= j].handler

\* what a handler leaves behind: the request it served and its response
Served(handler, method, path, status, body) ==
  [handler |-> handler, method |-> method, path |-> path, status |-> status,
   body |-> body]

(***************************************************************************)
(* GET /countries/image, GET /countries/:name, DELETE /countries/:name.    *)
(* They are served between two refresh requests, once the locals of the    *)
(* last refresh handler are gone.                                          *)
(***************************************************************************)
\* the refresh handler has returned: its locals go out of scope
RequestClosed ==
  /\ req.pc = "done"
  /\ req' = NoRequest
  /\ UNCHANGED <<variant, countries, image, served, derivation, inStage>>

\* fs.existsSync(SUMMARY_IMAGE) ? sendFile : 404 "Summary image not found"
GetImage ==
  /\ req.pc = "idle"
  /\ dispatch(variant, "GET", <<"countries", "image">>) = "getImage"
  /\ served' = IF IsDefined(image)
                 THEN Served("getImage", "GET", <<"countries", "image">>, 200, image)
                 ELSE Served("getImage", "GET", <<"countries", "image">>, 404,
                             Some([error |-> "Summary image not found"]))
  /\ UNCHANGED <<variant, countries, image, req, derivation, inStage>>

\* blank name: 400; SELECT .. WHERE LOWER(name) = LOWER(?) LIMIT 1 and 404
\* "Country not found" without a row, the row otherwise; 500 when the query
\* rejects
GetCountryByName ==
  /\ req.pc = "idle"
  /\ \E name \in RequestNames, ok \in BOOLEAN :
       /\ dispatch(variant, "GET", <<"countries", name>>) = "getByName"
       /\ LET rows == MatchingRows(countries, name)
              path == <<"countries", name>>
          IN  served' =
                IF name = Blank
                  THEN Served("getByName", "GET", path, 400, Some([error |-> "Validation failed"]))
                ELSE IF ~ok
                  THEN Served("getByName", "GET", path, 500, Some([error |-> "Internal server error"]))
                ELSE IF rows = {}
                  THEN Served("getByName", "GET", path, 404, Some([error |-> "Country not found"]))
                ELSE Served("getByName", "GET", path, 200, Some(CHOOSE r \in rows : TRUE))
  /\ UNCHANGED <<variant, countries, image, req, derivation, inStage>>

\* blank name: 400; DELETE .. WHERE LOWER(name) = LOWER(?) and 404 when
\* affectedRows is 0, 200 otherwise; 500 when the query rejects
DeleteCountry ==
  /\ req.pc = "idle"
  /\ \E name \in RequestNames, ok \in BOOLEAN :
       /\ dispatch(variant, "DELETE", <<"countries", name>>) = "deleteByName"
       /\ LET affectedRows == Cardinality(MatchingRows(countries, name))
              path == <<"countries", name>>
          IN  IF name = Blank
                THEN /\ served' = Served("deleteByName", "DELETE", path, 400,
                                          Some([error |-> "Validation failed"]))
                     /\ UNCHANGED countries
              ELSE IF ~ok
                THEN /\ served' = Served("deleteByName", "DELETE", path, 500,
                                          Some([error |-> "Internal server error"]))
                     /\ UNCHANGED countries
              ELSE /\ countries' = DeleteFrom(countries, name)
                   /\ served' =
                        IF affectedRows = 0
                          THEN Served("deleteByName", "DELETE", path, 404,
                                      Some([error |-> "Country not found"]))
                          ELSE Served("deleteByName", "DELETE", path, 200,
                                      Some([message |-> "deleted successfully"]))
  /\ UNCHANGED <<variant, image, req, derivation, inStage>>

Next ==
  \/ RefreshRequest
  \/ Fetch
  \/ GetConnection
  \/ BeginTransaction
  \/ UpsertCountry
  \/ Commit
  \/ GenerateSummaryImage
  \/ Rollback
  \/ RequestClosed
  \/ GetImage
  \/ GetCountryByName
  \/ DeleteCountry

Spec == Init /\ [][Next]_vars

(***************************************************************************)
(* The field deriver on its own: one turn of the loop body on any record,  *)
(* any rate map and any draw of Math.random().                             *)
(***************************************************************************)
\* the derivation kept: the record, the rate map, the multiplier drawn and the
\* row derived
DeriveFields ==
  /\ derivation = NoDerivation
  /\ \E c \in DeriveRecords(variant), rates \in WideRateMaps :
     \E multiplier \in (IF variant \in DualSource
                           THEN {multiplierOf(k) : k \in 0..(RandomSteps - 1)}
                           ELSE Multipliers) :
     \E simRate \in (IF variant \in DualSource THEN {800} ELSE SimRates) :
       derivation' = Some([c |-> c, rates |-> rates, multiplier |-> multiplier,
                           row |-> deriveRow(variant, c, rates, multiplier, simRate)])
  /\ UNCHANGED <<variant, countries, image, req, served, inStage>>

NextDerive == DeriveFields

SpecDerive == Init /\ [][NextDerive]_vars

(***************************************************************************)
(* The connection pool under concurrent refresh requests.  The pool hands  *)
(* out at most connectionLimit connections; with waitForConnections: true  *)
(* and queueLimit: 0 every further getConnection() or query() waits,       *)
(* without a time limit, until one is released.                            *)
(***************************************************************************)
\* connectionLimit: 10
ConnectionLimit == 10

\* how many refresh requests are followed through the pool
MaxRefreshes == 11

\* the connections the requests hold.  finallyRelease keeps the connection of
\* its transaction until the finally block, i.e. through generateSummaryImage;
\* nestedTry releases it after commit; a pool query holds one while it runs
InUse(v, st) ==
  LET queries == st["reading1"] + st["reading2"]
  IN  IF v = "finallyRelease"
        THEN st["writing"] + st["querying1"] + st["querying2"] + 2 * queries
        ELSE st["writing"] + queries

\* the connections held by requests that wait for one more
HeldByWaiting(v, st) ==
  IF v = "finallyRelease" THEN st["querying1"] + st["querying2"] ELSE 0

\* one request goes from one stage to another
moved(st, from, to) == [st EXCEPT ![from] = @ - 1, ![to] = @ + 1]

\* the requests that have arrived
Arrivals(st) ==
  st["arrived"] + st["connecting"] + st["writing"] + st["querying1"]
    + st["reading1"] + st["querying2"] + st["reading2"] + st["responded"]

\* a refresh request arrives and starts to fetch
PoolArrive ==
  /\ Arrivals(inStage) < MaxRefreshes
  /\ inStage' = [inStage EXCEPT !["arrived"] = @ + 1]
  /\ UNCHANGED <<variant, countries, image, req, served, derivation>>

\* the fetch step ends: 503 (500), or the handler asks the pool for a connection
PoolFetch ==
  /\ inStage["arrived"] > 0
  /\ \E ok \in BOOLEAN :
       inStage' = moved(inStage, "arrived", IF ok THEN "connecting" ELSE "responded")
  /\ UNCHANGED <<variant, countries, image, req, served, derivation>>

\* the pool hands a free connection to a waiting call
PoolAcquire ==
  /\ InUse(variant, inStage) < ConnectionLimit
  /\ \E w \in {"connecting", "querying1", "querying2"} :
       /\ inStage[w] > 0
       /\ inStage' = moved(inStage, w,
                           IF w = "connecting" THEN "writing"
                           ELSE IF w = "querying1" THEN "reading1" ELSE "reading2")
  /\ UNCHANGED <<variant, countries, image, req, served, derivation>>

\* the writes end.  Dual source: commit, then generateSummaryImage's first
\* query is queued (nestedTry has released its connection, finallyRelease has
\* not); or a failure, rollback, release and 500.  Single source: the upsert
\* query gives its connection back; the next upsert, the renderer or the catch
\* follows
PoolWritten ==
  /\ inStage["writing"] > 0
  /\ \E to \in {"querying1", "responded"}
              \cup (IF variant \in DualSource THEN {} ELSE {"connecting"}) :
       inStage' = moved(inStage, "writing", to)
  /\ UNCHANGED <<variant, countries, image, req, served, derivation>>

\* a query of generateSummaryImage ends: the second one is queued after the
\* first, the response and (finallyRelease) conn.release() follow the second;
\* a rejected query is caught inside generateSummaryImage and the response
\* follows at once
PoolQueried ==
  /\ \E r \in {"reading1", "reading2"}, ok \in BOOLEAN :
       /\ inStage[r] > 0
       /\ inStage' = moved(inStage, r,
                           IF r = "reading1" /\ ok THEN "querying2" ELSE "responded")
  /\ UNCHANGED <<variant, countries, image, req, served, derivation>>

NextPool ==
  \/ PoolArrive
  \/ PoolFetch
  \/ PoolAcquire
  \/ PoolWritten
  \/ PoolQueried

SpecPool == Init /\ [][NextPool]_vars

(***************************************************************************)
(* Properties.                                                             *)
(***************************************************************************)
Done == req.pc = "done"

\* the database calls of the transactional handlers
DbCalls == {"getConnection", "beginTransaction", "query", "commit", "rollback"}

\* an external fetch of request r failed, timed out, answered a non-2xx
\* status, or returned a body that is no catalog array or carries no rate map
FetchFailed(r) ==
  /\ IsDefined(r.countriesResp)
  /\ LET cat == Val(r.countriesResp)
         ex == Val(r.exchangeResp)
     IN  \/ cat.kind = "error"
         \/ cat.kind = "data" /\ ~cat.isArray
         \/ ex.kind = "error"
         \/ ex.kind = "data" /\ ~IsDefined(ex.body)
         \/ ex.kind = "data" /\ IsDefined(ex.body) /\ ~IsDefined(Val(ex.body).rates)

\* both fetches of request r succeeded with what the sources are specified to
\* send: a catalog array, and a rate response with result "success" and a
\* non-empty rate map
SourcesValid(r) ==
  /\ IsDefined(r.countriesResp)
  /\ Val(r.countriesResp).kind = "data"
  /\ Val(r.countriesResp).isArray
  /\ Val(r.exchangeResp).kind = "data"
  /\ IsDefined(Val(r.exchangeResp).body)
  /\ Val(Val(r.exchangeResp).body).result = "success"
  /\ Val(Val(r.exchangeResp).body).rates = Some(QuotedRates)

\* C1: in the two transactional refresh handlers, a refresh in which an upsert
\* or the commit failed was rolled back, has committed nothing and leaves the
\* countries table with exactly the rows it had when the request arrived.
C1_AllOrNothing ==
  (variant \in DualSource /\ Done /\ req.failed \cap {"query", "commit"} # {})
    => /\ countries = req.before
       /\ req.pending = {}
       /\ req.rollbacks = 1
       /\ ~req.committed

\* a transactional refresh whose second or later upsert failed, over a
\* non-empty table
C1_Witness ==
  /\ variant \in DualSource
  /\ Done
  /\ "query" \in req.failed
  /\ req.processed >= 1
  /\ req.before # {}

C3_FetchFailureIs503 ==
  FetchFailed(req) => req.status = 503

\* C4: in the transactional handlers, once the fetches have succeeded, every
\* failure of a database call is answered 500, never 503.
C4_DbFailureIs500 ==
  (variant \in DualSource /\ Done /\ SourcesValid(req) /\ req.failed \cap DbCalls # {})
    => req.status = 500

\* C5: in the single-source handler, a refresh in which an upsert failed
\* leaves none of its earlier upserts in the table.
C5_SingleSourceAllOrNothing ==
  (variant = "singleSource" /\ Done /\ "query" \in req.failed)
    => countries = req.before

\* C6: in the transactional handlers, a connection that was acquired has been
\* released exactly once when the handler is through.
C6_ReleasedExactlyOnce ==
  (variant \in DualSource /\ Done /\ SourcesValid(req) /\ req.conn # "undefined")
    => req.releases = 1

\* C7: a step in which the renderer fails changes nothing of the refresh: it
\* answers 200 with the processed count, issues no rollback and leaves the
\* committed rows in the table.
C7_RendererFailureSwallowed ==
  [][("generateSummaryImage" \notin req.failed /\ "generateSummaryImage" \in req'.failed)
       => /\ req'.pc = "done"
          /\ req'.status = 200
          /\ req'.responses = 1
          /\ req'.total = req.processed
          /\ req'.total = Val(req.countriesResp).len
          /\ req'.rollbacks = 0
          /\ req'.failed = {"generateSummaryImage"}
          /\ countries' = countries
          /\ image' = image]_vars

\* the renderer failed after a refresh that changed the table
C7_Witness ==
  /\ Done
  /\ "generateSummaryImage" \in req.failed
  /\ req.status = 200
  /\ req.total >= 1
  /\ countries # req.before

\* C8, as claimed: a refresh answered 200 has rewritten the image from the
\* table as committed, one answered 500 or 503 has not written it.
C8_ImageAfterEvery200 ==
  Done =>
    /\ req.status = 200
         => /\ req.imageWrites = 1
            /\ image = Some(Render(variant, countries))
            /\ (variant \in DualSource => req.committed)
    /\ req.status \in {500, 503} => req.imageWrites = 0

\* C8, amended: a refresh answered 200 whose renderer did not fail has
\* rewritten the image, once, from the table as committed; one whose renderer
\* failed is answered 200 all the same and leaves the image file as it was; a
\* refresh answered 500 or 503, or not answered, has not written the image.
C8_ImageAfter200UnlessRendererFails ==
  Done =>
    /\ (req.status = 200 /\ "generateSummaryImage" \notin req.failed)
         => /\ req.imageWrites = 1
            /\ image = Some(Render(variant, countries))
            /\ (variant \in DualSource => req.committed)
    /\ (req.status = 200 /\ "generateSummaryImage" \in req.failed)
         => req.imageWrites = 0
    /\ req.status # 200 => req.imageWrites = 0

\* a refresh answered 200 has replaced an older image by one that shows its rows
C8_Witness ==
  /\ Done
  /\ req.status = 200
  /\ req.imageWrites = 1
  /\ req.before # {}
  /\ countries # req.before
  /\ image = Some(Render(variant, countries))

\* C9: every stored row without a currency code has no exchange rate and an
\* estimated GDP of 0.
C9_NoCurrencyRow ==
  \A r \in countries :
    r.currency_code = Null
      => r.exchange_rate = Null /\ r.estimated_gdp = Some(0)

\* both countries are stored without a currency code
C9_Witness ==
  /\ Cardinality(countries) = 2
  /\ \A r \in countries : r.currency_code = Null

\* C10: in the dual-source handlers, a row written for a currency code that
\* the rate map does not hold has neither exchange rate nor estimated GDP, and
\* one written for a code quoted at 0 has exchange rate 0 and no estimated GDP.
C10_DecisionTable ==
  (variant \in DualSource /\ SourcesValid(req)) =>
    \A r \in req.pending :
      TruthyString(r.currency_code) =>
        LET rate == req.rates[Val(r.currency_code)]
        IN  /\ rate = Undefined
                 => r.exchange_rate = Null /\ r.estimated_gdp = Null
            /\ rate = Some(0)
                 => r.exchange_rate = Some(0) /\ r.estimated_gdp = Null

\* C11: in the dual-source servers, a record whose currency code is quoted in
\* the rate map at a rate above zero is stored with that rate as exchange_rate
\* and with estimated_gdp = population * multiplier / rate for some integer
\* multiplier in 1000..2000; population 1000 at rate 10 gives an estimated_gdp
\* within [100000, 200000].
C11_QuotedRateDerivation ==
  (IsDefined(derivation) /\ variant \in DualSource) =>
    LET d == Val(derivation)
        cc == d.row.currency_code
    IN  (TruthyString(cc) /\ IsDefined(d.rates[Val(cc)]) /\ Val(d.rates[Val(cc)]) > 0) =>
          LET rate == Val(d.rates[Val(cc)])
          IN  /\ d.row.exchange_rate = Some(rate)
              /\ IsDefined(d.row.estimated_gdp)
              /\ \E m \in MultMin..MultMax :
                    Val(d.row.estimated_gdp) * rate = d.row.population * m
              /\ (d.row.population = 1000 /\ rate = 10) =>
                    /\ Val(d.row.estimated_gdp) >= 100000
                    /\ Val(d.row.estimated_gdp) <= 200000

\* population 1000 at rate 10 with the largest multiplier, in the nested-try
\* server
C11_Witness ==
  /\ variant = "nestedTry"
  /\ IsDefined(derivation)
  /\ Val(derivation).c.population = Some(1000)
  /\ Val(derivation).row.currency_code = Some("NGN")
  /\ Val(derivation).rates["NGN"] = Some(10)
  /\ Val(derivation).row.exchange_rate = Some(10)
  /\ Val(derivation).row.estimated_gdp = Some(200000)

\* C12: whatever the sources send (a negative or non-numeric population, a
\* negative rate), no row derived by the dual-source servers carries a negative
\* estimated_gdp.
C12_GdpNeverNegative ==
  (IsDefined(derivation) /\ variant \in DualSource) =>
    \/ Val(derivation).row.estimated_gdp = Null
    \/ Val(Val(derivation).row.estimated_gdp) >= 0

\* C13: in the dual-source servers the fetch step lets the handler go on to the
\* database only if the catalog response is an array and the rate response
\* reports result "success" with a non-empty rate map; every other rate
\* response ends the request in the fetch step.
C13_FetchAcceptsOnlyValidSources ==
  (variant \in DualSource /\ IsDefined(req.countriesResp) /\ "fetch" \notin req.failed) =>
    LET cat == Val(req.countriesResp)
        ex == Val(req.exchangeResp)
    IN  /\ cat.kind = "data" /\ cat.isArray
        /\ ex.kind = "data" /\ IsDefined(ex.body)
        /\ Val(ex.body).result = "success"
        /\ IsDefined(Val(ex.body).rates)
        /\ Val(Val(ex.body).rates) # EmptyRates

\* C14: in every server a GET /countries/image request is handled by the image
\* handler, never by the get-by-name handler with name = "image".
C14_ImageRouteReachesImageHandler ==
  (served.handler # "none" /\ served.method = "GET"
     /\ served.path = <<"countries", "image">>) =>
    served.handler = "getImage"

\* a step in which the get-by-name or the delete-by-name handler served a
\* request with a name that is not blank and its query did not reject
ByNameStep ==
  /\ served' # served \/ countries' # countries
  /\ served'.handler \in {"getByName", "deleteByName"}
  /\ served'.status \notin {400, 500}

\* C15: get-by-name and delete-by-name match the stored name without regard to
\* case, and delete is final.  For a stored record named N and a case variant V
\* of N: GET V answers 200 with the record; DELETE V answers 200 and removes
\* that row and no other; a GET or DELETE of a case variant of N that follows
\* the delete answers 404; DELETE (and GET) of a name not stored answers 404
\* and leaves the table as it is.  (Requests whose database query succeeds.)
C15_CaseInsensitiveByName ==
  [][ByNameStep =>
       LET V == served'.path[2]
           stored == {r \in countries : Lower(r.name) = Lower(V)}
       IN  /\ served'.handler = "getByName" =>
                /\ countries' = countries
                /\ stored # {} => /\ served'.status = 200
                                  /\ IsDefined(served'.body)
                                  /\ Val(served'.body) \in stored
                /\ stored = {} => served'.status = 404
           /\ served'.handler = "deleteByName" =>
                /\ stored # {} => /\ served'.status = 200
                                  /\ Cardinality(stored) = 1
                                  /\ countries' = countries \ stored
                /\ stored = {} => /\ served'.status = 404
                                  /\ countries' = countries
           /\ (/\ served.handler = "deleteByName"
               /\ served.status = 200
               /\ Lower(served.path[2]) = Lower(V)) => served'.status = 404
     ]_vars

\* Nigeria and Ghana were stored, DELETE /countries/NIGERIA was answered 200
\* and only Ghana's row is left
C15_Witness ==
  /\ served.handler = "deleteByName"
  /\ served.path = <<"countries", "NIGERIA">>
  /\ served.status = 200
  /\ countries # {}
  /\ \A r \in countries : r.name = "Ghana"

\* C16: with any number of concurrent refresh requests, also as many as the
\* pool has connections or more, there is no state in which every connection
\* of the pool is held by a refresh request that waits for a second one.
C16_NoPoolDeadlock ==
  ~ /\ InUse(variant, inStage) = ConnectionLimit
    /\ HeldByWaiting(variant, inStage) = ConnectionLimit

\* C17: every refresh request gets exactly one response, and its status is
\* 200, 500 or 503, whichever of the fetch, getConnection, an upsert, commit or
\* the rollback in the error path fails.
C17_ExactlyOneResponse ==
  Done => /\ req.responses = 1
          /\ req.status \in {200, 500, 503}

\* the refresh in flight has sent its first upsert and has neither committed
\* nor rolled back
MidRefresh == req.issued >= 1 /\ req.pc \in {"upsert", "commit", "rollback"}

\* C18: a read through the pool (list, get-by-name, status) between the first
\* upsert of a refresh and its commit or rollback finds the table as it was
\* before that refresh; from the commit on, reads find every record of the
\* refresh applied.
C18_ReadsSeeNoPartialRefresh ==
  [][/\ MidRefresh' => poolRead(countries', req'.pending) = req'.before
     /\ (~req.committed /\ req'.committed) =>
          poolRead(countries', req'.pending) = ApplyAll(req.before, req.pending)
    ]_vars

====
